---- MODULE Spec2Model ----
(***************************************************************************)
(* Signal pipeline of the trading back end: the webhook stores a raw       *)
(* signal and enqueues process_signal_task; that task parses the text,     *)
(* creates the Order and its first OrderHistory row, and enqueues          *)
(* simulate_order_lifecycle and a broadcast; the lifecycle task moves the  *)
(* order to executed and closed.  All tasks run on Celery workers with     *)
(* autoretry_for=(Exception,), max_retries=3 and late acknowledgement.     *)
(*                                                                         *)
(* A text is a sequence of one-character strings.  A float is a record:    *)
(* [k |-> "num", m |-> mantissa, d |-> fraction digits] for m / 10^d,      *)
(* [k |-> "nan"], or [k |-> "inf", neg |-> BOOLEAN].                       *)
(***************************************************************************)
EXTENDS Integers, Sequences, FiniteSets, Bags, TLC

\* ------------------------------------------------------------------------
\* Text helpers (Python str methods used by parse_signal)
\* ------------------------------------------------------------------------

None == [k |-> "None"]

LowerLetters == <<"a","b","c","d","e","f","g","h","i","j","k","l","m",
                  "n","o","p","q","r","s","t","u","v","w","x","y","z">>

UpperLetters == <<"A","B","C","D","E","F","G","H","I","J","K","L","M",
                  "N","O","P","Q","R","S","T","U","V","W","X","Y","Z">>

Digits == <<"0","1","2","3","4","5","6","7","8","9">>

Range(s) == {s[i] : i \in DOMAIN s}

IsSpace(c) == c \in {" ", "\t", "\n", "\r", "\f"}

IsDigit(c) == c \in Range(Digits)

IsUpper(c) == c \in Range(UpperLetters)

DigitValue(c) == (CHOOSE i \in DOMAIN Digits : Digits[i] = c) - 1

UpperChar(c) ==
    IF c \in Range(LowerLetters)
    THEN UpperLetters[CHOOSE i \in DOMAIN LowerLetters : LowerLetters[i] = c]
    ELSE c

\* str.upper()
upper(s) == [i \in DOMAIN s |-> UpperChar(s[i])]

\* s[a:b] with 1-based inclusive bounds, empty when a > b
Slice(s, a, b) == IF a > b THEN << >> ELSE SubSeq(s, a, b)

\* str.startswith / str.endswith
startswith(s, p) == Len(s) >= Len(p) /\ Slice(s, 1, Len(p)) = p

endswith(s, p) == Len(s) >= Len(p) /\ Slice(s, Len(s) - Len(p) + 1, Len(s)) = p

\* str.strip(): drop leading and trailing whitespace
strip(s) ==
    LET keep == {i \in DOMAIN s : ~IsSpace(s[i])}
    IN  IF keep = {} THEN << >>
        ELSE LET lo == CHOOSE i \in keep : \A j \in keep : i <= j
                 hi == CHOOSE i \in keep : \A j \in keep : i >= j
             IN  SubSeq(s, lo, hi)

\* str.split(sep) for a one-character separator: always at least one piece
RECURSIVE split(_, _)
split(s, sep) ==
    LET cuts == {i \in DOMAIN s : s[i] = sep}
    IN  IF cuts = {} THEN <<s>>
        ELSE LET c == CHOOSE i \in cuts : \A j \in cuts : i <= j
             IN  <<Slice(s, 1, c - 1)>> \o split(Slice(s, c + 1, Len(s)), sep)

\* str.split() without argument: the whitespace-separated tokens
RECURSIVE split_ws(_)
split_ws(s) ==
    LET t == strip(s)
        ws == {i \in DOMAIN t : IsSpace(t[i])}
    IN  IF t = << >> THEN << >>
        ELSE IF ws = {} THEN <<t>>
        ELSE LET c == CHOOSE i \in ws : \A j \in ws : i <= j
             IN  <<Slice(t, 1, c - 1)>> \o split_ws(Slice(t, c + 1, Len(t)))

\* the elements of a sequence that satisfy Test, in order
RECURSIVE SelectNonEmpty(_)
SelectNonEmpty(ls) ==
    IF ls = << >> THEN << >>
    ELSE (IF Head(ls) = << >> THEN << >> ELSE <<Head(ls)>>) \o SelectNonEmpty(Tail(ls))

\* ------------------------------------------------------------------------
\* float(): the text-to-number conversion used for the price, SL and TP.
\* Sign, digits with at most one dot, inf/infinity/nan in any case.
\* Exponents and digit-group underscores are outside the texts considered.
\* ------------------------------------------------------------------------

Num(m, d) == [k |-> "num", m |-> m, d |-> d]

NaN == [k |-> "nan"]

Inf(neg) == [k |-> "inf", neg |-> neg]

RECURSIVE Pow10(_)
Pow10(n) == IF n = 0 THEN 1 ELSE 10 * Pow10(n - 1)

RECURSIVE DigitsValue(_)
DigitsValue(ds) ==
    IF ds = << >> THEN 0
    ELSE 10 * DigitsValue(SubSeq(ds, 1, Len(ds) - 1)) + DigitValue(ds[Len(ds)])

float_ok(v) == [ok |-> TRUE, val |-> v]

float_error == [ok |-> FALSE]

\* float(tok) for a token without surrounding whitespace
float(tok) ==
    LET neg  == tok # << >> /\ tok[1] = "-"
        body == IF tok # << >> /\ tok[1] \in {"-", "+"} THEN Tail(tok) ELSE tok
        word == upper(body)
        dots == {i \in DOMAIN body : body[i] = "."}
        digs == {i \in DOMAIN body : IsDigit(body[i])}
    IN  IF word = <<"N","A","N">> THEN float_ok(NaN)
        ELSE IF word \in {<<"I","N","F">>, <<"I","N","F","I","N","I","T","Y">>}
             THEN float_ok(Inf(neg))
        ELSE IF digs = {} \/ Cardinality(dots) > 1
                \/ dots \cup digs # DOMAIN body THEN float_error
        ELSE LET dot  == IF dots = {} THEN Len(body) + 1 ELSE CHOOSE i \in dots : TRUE
                 ip   == Slice(body, 1, dot - 1)
                 fp   == Slice(body, dot + 1, Len(body))
                 mant == DigitsValue(ip \o fp)
             IN  float_ok(Num(IF neg THEN 0 - mant ELSE mant, Len(fp)))

\* Python's float comparisons: every comparison with nan is False
FloatCmp(a, b) ==
    \* -1, 0, 1 for two non-nan floats
    IF a.k = "inf" /\ b.k = "inf"
    THEN (IF a.neg = b.neg THEN 0 ELSE IF a.neg THEN -1 ELSE 1)
    ELSE IF a.k = "inf" THEN (IF a.neg THEN -1 ELSE 1)
    ELSE IF b.k = "inf" THEN (IF b.neg THEN 1 ELSE -1)
    ELSE LET x == a.m * Pow10(b.d)
             y == b.m * Pow10(a.d)
         IN  IF x < y THEN -1 ELSE IF x > y THEN 1 ELSE 0

FloatGE(a, b) == a.k # "nan" /\ b.k # "nan" /\ FloatCmp(a, b) >= 0

FloatLE(a, b) == a.k # "nan" /\ b.k # "nan" /\ FloatCmp(a, b) <= 0

\* ------------------------------------------------------------------------
\* The first-line pattern
\*   ^(BUY|SELL)\s+([A-Z]+)(?:\s*(?:\[@?([\d.]+)[^\]]*\]|@([\d.]+)))?$
\* ------------------------------------------------------------------------

\* length of the longest prefix of s whose characters all satisfy the class
RECURSIVE RunLen(_, _)
RunLen(s, cls) ==
    IF s = << >> \/ Head(s) \notin cls THEN 0 ELSE 1 + RunLen(Tail(s), cls)

SpaceClass == {" ", "\t", "\n", "\r", "\f"}

UpperClass == Range(UpperLetters)

PriceClass == Range(Digits) \cup {"."}

Drop(s, n) == Slice(s, n + 1, Len(s))

no_match == [ok |-> FALSE]

\* the optional price part that follows the instrument: group(3) or group(4)
match_price(rest) ==
    LET r == Drop(rest, RunLen(rest, SpaceClass))
    IN  IF rest = << >> THEN [ok |-> TRUE, price |-> None]
        ELSE IF r # << >> /\ r[1] = "["
        THEN LET b == IF Len(r) >= 2 /\ r[2] = "@" THEN Drop(r, 2) ELSE Drop(r, 1)
                 n == RunLen(b, PriceClass)
                 t == Drop(b, n)
             IN  IF n >= 1 /\ t # << >> /\ t[Len(t)] = "]"
                    /\ \A i \in 1..(Len(t) - 1) : t[i] # "]"
                 THEN [ok |-> TRUE, price |-> [k |-> "str", s |-> Slice(b, 1, n)]]
                 ELSE no_match
        ELSE IF r # << >> /\ r[1] = "@"
        THEN LET b == Drop(r, 1)
             IN  IF b # << >> /\ RunLen(b, PriceClass) = Len(b)
                 THEN [ok |-> TRUE, price |-> [k |-> "str", s |-> b]]
                 ELSE no_match
        ELSE no_match

\* re.match(pattern, first_line)
match_first_line(line) ==
    LET act  == IF startswith(line, <<"B","U","Y">>) THEN "BUY"
                ELSE IF startswith(line, <<"S","E","L","L">>) THEN "SELL"
                ELSE "none"
        r1   == Drop(line, IF act = "BUY" THEN 3 ELSE 4)
        nsp  == RunLen(r1, SpaceClass)
        r2   == Drop(r1, nsp)
        nin  == RunLen(r2, UpperClass)
        tail == match_price(Drop(r2, nin))
    IN  IF act = "none" \/ nsp = 0 \/ nin = 0 \/ ~tail.ok THEN no_match
        ELSE [ok |-> TRUE, action |-> act, instrument |-> Slice(r2, 1, nin),
              price |-> tail.price]

\* ------------------------------------------------------------------------
\* parse_signal
\* ------------------------------------------------------------------------

\* a Python str value held in a nullable field; arg carries an interpolated text
Str(s) == [k |-> "str", s |-> s]

StrArg(s, a) == [k |-> "str", s |-> s, arg |-> a]

invalid(err) == [valid |-> FALSE, error |-> err]

\* message[1:-1].strip() when the message starts and ends with the quote q
strip_quotes(message, q) ==
    IF startswith(message, <<q>>) /\ endswith(message, <<q>>)
    THEN strip(Slice(message, 2, Len(message) - 1))
    ELSE message

\* [line.strip() for line in message.split("\n") if line.strip()]
split_lines(message) ==
    LET pieces == split(message, "\n")
    IN  SelectNonEmpty([i \in DOMAIN pieces |-> strip(pieces[i])])

\* float(line.split()[1]) with IndexError and ValueError caught
second_token_float(line) ==
    LET toks == split_ws(line)
    IN  IF Len(toks) < 2 THEN float_error ELSE float(toks[2])

\* the loop over lines[1:]: the last SL and the last TP win, the first
\* malformed SL or TP line returns at once
RECURSIVE scan_sl_tp(_, _, _)
scan_sl_tp(lines, sl, tp) ==
    IF lines = << >> THEN [ok |-> TRUE, sl |-> sl, tp |-> tp]
    ELSE LET line == Head(lines)
             up   == upper(line)
             f    == second_token_float(line)
         IN  IF startswith(up, <<"S","L">>)
             THEN IF f.ok THEN scan_sl_tp(Tail(lines), f.val, tp)
                  ELSE [ok |-> FALSE, error |-> Str("Invalid SL format")]
             ELSE IF startswith(up, <<"T","P">>)
             THEN IF f.ok THEN scan_sl_tp(Tail(lines), sl, f.val)
                  ELSE [ok |-> FALSE, error |-> Str("Invalid TP format")]
             ELSE scan_sl_tp(Tail(lines), sl, tp)

parse_signal(message) ==
    IF message = << >> THEN invalid(Str("Empty message"))
    ELSE
    LET unquoted == strip_quotes(strip_quotes(message, "\""), "'")
        lines    == split_lines(unquoted)
    IN  IF Len(lines) < 2 THEN invalid(Str("Incomplete signal data"))
        ELSE
        LET match == match_first_line(lines[1])
        IN  IF ~match.ok THEN invalid(Str("Invalid first line format"))
            ELSE
            LET pf == IF match.price = None THEN float_ok(None)
                      ELSE float(match.price.s)
                st == scan_sl_tp(Tail(lines), None, None)
            IN  IF ~pf.ok
                THEN invalid(StrArg("Unexpected error: could not convert string to float: ",
                                    match.price.s))
                ELSE IF ~st.ok THEN invalid(st.error)
                ELSE IF st.sl = None THEN invalid(Str("SL missing"))
                ELSE IF st.tp = None THEN invalid(Str("TP missing"))
                ELSE IF match.action = "BUY" /\ FloatGE(st.sl, st.tp)
                THEN invalid(Str("For BUY, SL must be lower than TP"))
                ELSE IF match.action = "SELL" /\ FloatLE(st.sl, st.tp)
                THEN invalid(Str("For SELL, SL must be higher than TP"))
                ELSE [valid |-> TRUE,
                      data  |-> [action |-> match.action,
                                 instrument |-> match.instrument,
                                 price |-> pf.val,
                                 stop_loss |-> st.sl,
                                 take_profit |-> st.tp]]

\* ------------------------------------------------------------------------
\* Bounds and program constants
\* ------------------------------------------------------------------------

\* signals the webhook accepts in one behaviour
MaxSignals == 1

\* Celery workers draining the queue
NumWorkers == 2

\* infrastructure faults in one behaviour: an outage of the database or of
\* the channel layer, a lost worker, a message delivered a second time
MaxFaults == 1

\* @shared_task(..., max_retries=3)
max_retries == 3

\* Order.instrument: CharField(max_length=20)
instrument_max_length == 20

\* round_half_up(value, 4); DecimalField(decimal_places=4)
decimal_places == 4

\* DecimalField(max_digits=19)
max_digits == 19

\* generate_custom_id: (previous_counter + 1) % 10000
counter_modulus == 10000

Workers == 1..NumWorkers

\* the broker accounts with an active API key, and the username of the user
\* each belongs to (broker_account.user)
Accounts == {"A", "B"}

account_user(a) == IF a = "A" THEN "alice" ELSE "bob"

\* the account whose API key the webhook requests carry when one account
\* stands for all of them
WebhookAccount == "A"

\* the websocket connections to ws/signals/invalid/, named by the broker
\* account their client belongs to
Connections == Accounts

\* The signal texts the webhook receives (request body, already stripped).
MsgBuyPrice ==
    <<"B","U","Y"," ","E","U","R","U","S","D"," ","[","@","1",".","0","8","6","0","]","\n",
      "S","L"," ","1",".","0","8","5","0","\n",
      "T","P"," ","1",".","0","8","9","0">>

MsgSellNoPrice ==
    <<"S","E","L","L"," ","G","B","P","U","S","D","\n",
      "S","L"," ","1",".","2","7","0","0","\n",
      "T","P"," ","1",".","2","6","0","0">>

MsgOneLine == <<"B","U","Y"," ","E","U","R","U","S","D">>

Messages == {MsgBuyPrice, MsgSellNoPrice, MsgOneLine}

\* ------------------------------------------------------------------------
\* State
\* ------------------------------------------------------------------------

VARIABLES
    db_signals,     \* committed TradingSignal rows, indexed by id
    db_orders,      \* committed Order rows (set of records, id is the key)
    db_history,     \* committed OrderHistory rows (set of records, id is the key)
    next_pk,        \* [order, history]: the next primary key of each table
    queue,          \* bag of task messages waiting in the broker
    workers,        \* per worker: the running task, its locals and its position
    sent,           \* events handed to the channel layer by group_send
    enqueued,       \* bag of every .delay(...) call made so far (history variable)
    db_up,          \* the database answers
    channel_up,     \* the channel layer answers
    faults,         \* infrastructure faults so far
    consumers       \* per websocket connection: its group membership and what it was sent

vars == <<db_signals, db_orders, db_history, next_pk, queue, workers, sent,
          enqueued, db_up, channel_up, faults, consumers>>

\* ------------------------------------------------------------------------
\* Exceptions, as the text str(e) stored in error_message
\* ------------------------------------------------------------------------

OperationalError == Str("OperationalError")

IntegrityError == Str("IntegrityError")

TypeErrorNone == Str("float() argument must be a string or a real number, not 'NoneType'")

ValidationError(fields) == [k |-> "str", s |-> "ValidationError", fields |-> fields]

\* ------------------------------------------------------------------------
\* Order fields
\* ------------------------------------------------------------------------

Abs(n) == IF n < 0 THEN 0 - n ELSE n

\* round_half_up(value, decimals): ties away from zero, None stays None
round_half_up(v, n) ==
    IF v = None \/ v.k # "num" THEN v
    ELSE IF v.d <= n THEN Num(v.m * Pow10(n - v.d), n)
    ELSE LET p  == Pow10(v.d - n)
             q  == Abs(v.m) \div p
             r  == Abs(v.m) % p
             up == IF 2 * r >= p THEN q + 1 ELSE q
         IN  Num(IF v.m < 0 THEN 0 - up ELSE up, n)

\* the number of decimal digits of a natural number (0 has none)
RECURSIVE NumDigits(_)
NumDigits(n) == IF n = 0 THEN 0 ELSE 1 + NumDigits(n \div 10)

\* DecimalField(max_digits=19, decimal_places=4) accepts the value: a finite
\* number with at most decimal_places fraction digits and at most
\* max_digits - decimal_places digits before the point
decimal_ok(v) ==
    /\ v.k = "num"
    /\ v.d <= decimal_places
    /\ NumDigits(Abs(v.m) \div Pow10(v.d)) <= max_digits - decimal_places

\* MinValueValidator(0)
min_value_ok(v) == v.k # "num" \/ v.m >= 0

\* generate_custom_id: the counter after the highest order_id among the rows
\* the locking query returns (rows locked by another transaction are skipped);
\* the prefix and the date are the same for every order of one day
generate_custom_id(unlocked) ==
    IF unlocked = {} THEN 1
    ELSE LET latest == CHOOSE o \in unlocked : \A x \in unlocked : x.order_id <= o.order_id
         IN  (latest.order_id + 1) % counter_modulus

\* Model.clean_fields: the fields that fail validation
clean_fields(o) ==
    {f \in {"instrument"} : Len(o.instrument) > instrument_max_length}
    \cup {f \in {"entry_price"} : o.entry_price # None /\ ~decimal_ok(o.entry_price)}
    \cup {f \in {"stop_loss"} : ~decimal_ok(o.stop_loss) \/ ~min_value_ok(o.stop_loss)}
    \cup {f \in {"take_profit"} : ~decimal_ok(o.take_profit) \/ ~min_value_ok(o.take_profit)}

\* variant with a seeded fault: the signal link declared as a plain ForeignKey, without uniqueness
unique_fields_foreign_key == {"order_id"}

\* the fields with a unique constraint: order_id (unique=True), signal (OneToOneField)
unique_fields == {"signal", "order_id"}

\* Model.validate_unique: unique fields that passed clean_fields and whose
\* value another visible row already has
validate_unique(o, visible, bad) ==
    {f \in (unique_fields \cap {"signal"}) \ bad :
        \E x \in visible : x.id # o.id /\ x.signal = o.signal}
    \cup {f \in (unique_fields \cap {"order_id"}) \ bad :
        \E x \in visible : x.id # o.id /\ x.order_id = o.order_id}

\* Order.full_clean: the set of failing fields (empty when the order is valid)
full_clean(o, visible) ==
    LET bad == clean_fields(o)
    IN  bad \cup validate_unique(o, visible, bad)

\* ------------------------------------------------------------------------
\* Task queue and retry policy
\* ------------------------------------------------------------------------

TaskMsg(task, arg) == [task |-> task, arg |-> arg, retries |-> 0]

\* task.delay(arg)
delay(q, task, arg) == q (+) SetToBag({TaskMsg(task, arg)})

\* the history of delay calls, without the retry count
record_delay(e, task, arg) == e (+) SetToBag({[task |-> task, arg |-> arg]})

\* variant with a seeded fault: the retry count compared with <= instead of <
should_retry_off_by_one(m) == m.retries <= max_retries

\* Celery's autoretry: a raising execution is sent again while the retries
\* made so far are fewer than max_retries
should_retry(m) == m.retries < max_retries

\* the queue after the execution of m (already taken from q) has raised
autoretry(q, m) ==
    IF should_retry(m) THEN q (+) SetToBag({[m EXCEPT !.retries = @ + 1]}) ELSE q

take(q, m) == q (-) SetToBag({m})

\* ------------------------------------------------------------------------
\* Workers
\* ------------------------------------------------------------------------

Idle == [pc |-> "idle", msg |-> None, signal |-> None, data |-> None,
         order |-> None, exc |-> None, stage |-> 0, rerun |-> FALSE]

\* the worker that receives the next message: the pool hands it to a free
\* worker; the workers are alike, so the free worker with the lowest index
\* stands for any of them
FreeWorker(w) ==
    /\ workers[w].pc = "idle"
    /\ \A v \in Workers : workers[v].pc = "idle" => w <= v

\* positions at which a worker's open transaction holds an uncommitted Order
HoldsInsert(w) == workers[w].pc \in {"P_broadcast", "P_lifecycle", "P_commit"}

\* variant with a seeded fault: one atomic block around both transitions, the second
\* sleep inside it
HoldsRowLock_one_block(w) ==
    \/ workers[w].pc \in {"L_broadcast", "L_commit"}
    \/ workers[w].pc = "L_update" /\ workers[w].stage = 2

\* positions at which a worker's open transaction holds the lock of an Order
\* row: inside the two atomic blocks (lines 28-47, 51-72), not at the sleeps
\* before them
HoldsRowLock(w) == workers[w].pc \in {"L_broadcast", "L_commit"}

\* committed orders whose row another transaction has locked
LockedOrders(w) ==
    {o \in db_orders : \E v \in Workers \ {w} :
        HoldsRowLock(v) /\ workers[v].order.id = o.id}

\* the unique index of the table rejects the row
unique_violation(o, rows) ==
    \/ "signal" \in unique_fields /\ \E x \in rows : x.id # o.id /\ x.signal = o.signal
    \/ "order_id" \in unique_fields /\ \E x \in rows : x.id # o.id /\ x.order_id = o.order_id

\* an uncommitted Order of another transaction has the same unique key
InsertConflict(w, o) ==
    \E v \in Workers \ {w} :
        /\ HoldsInsert(v)
        /\ unique_violation(o, {workers[v].order})

OrdersOfSignal(sid) == {o \in db_orders : o.signal = sid}

HistoryOf(oid) == {h \in db_history : h.order = oid}

Init ==
    /\ db_signals = << >>
    /\ db_orders = {}
    /\ db_history = {}
    /\ next_pk = [signal |-> 1, order |-> 1, history |-> 1]
    /\ queue = EmptyBag
    /\ workers = [w \in Workers |-> Idle]
    /\ sent = {}
    /\ enqueued = EmptyBag
    /\ db_up = TRUE
    /\ channel_up = TRUE
    /\ faults = 0
    /\ consumers = [c \in Connections |-> [connected |-> FALSE, received |-> {}]]

\* ------------------------------------------------------------------------
\* Webhook: ReceiveSignalAPIView.post, after the API key and content checks
\* ------------------------------------------------------------------------

\* post for a request of `account` with body `text`; `limit` bounds the
\* number of requests of one behaviour
ReceiveSignal(account, text, limit) ==
    /\ next_pk.signal <= limit
    /\ db_up
    /\ text # << >>
    /\ LET sid == next_pk.signal
       IN  /\ db_signals' = (sid :> [status |-> "pending", error_message |-> None,
                                     raw_message |-> text, account |-> account,
                                     user |-> account_user(account)]) @@ db_signals
           /\ next_pk' = [next_pk EXCEPT !.signal = @ + 1]
           /\ queue' = delay(queue, "process_signal_task", [signal_id |-> sid])
           /\ enqueued' = record_delay(enqueued, "process_signal_task", [signal_id |-> sid])
    /\ UNCHANGED <<db_orders, db_history, workers, sent, db_up, channel_up,
                   faults, consumers>>

\* ------------------------------------------------------------------------
\* process_signal_task
\* ------------------------------------------------------------------------

SetWorker(w, rec) == workers' = [workers EXCEPT ![w] = rec]

\* variant with a seeded fault: the rejection branch stores the success status
rejected_status_success == "success"

\* the status stored when the parser rejects the text
rejected_status == "failed"

\* lines 21-23: load the signal, store status processing
StartProcess(w, m) ==
    /\ FreeWorker(w)
    /\ BagIn(m, queue)
    /\ m.task = "process_signal_task"
    /\ LET sid == m.arg.signal_id
       IN  IF ~db_up \/ sid \notin DOMAIN db_signals
           THEN \* the get raises outside the try block
                /\ queue' = autoretry(take(queue, m), m)
                /\ UNCHANGED <<db_signals, workers>>
           ELSE /\ queue' = take(queue, m)
                /\ db_signals' = [db_signals EXCEPT ![sid].status = "processing"]
                /\ SetWorker(w, [Idle EXCEPT
                       !.pc = "P_parse", !.msg = m,
                       !.signal = [id |-> sid, status |-> "processing",
                                   error_message |-> db_signals[sid].error_message,
                                   raw_message |-> db_signals[sid].raw_message,
                                   account |-> db_signals[sid].account,
                                   user |-> db_signals[sid].user],
                       !.rerun = OrdersOfSignal(sid) # {}])
    /\ UNCHANGED <<db_orders, db_history, next_pk, sent, enqueued, db_up, channel_up,
                   faults, consumers>>

\* variant with a seeded fault: the parser answers from stored state, it
\* rejects the text of a signal that already has an order
ParseSignal_reads_orders(w) ==
    LET me     == workers[w]
        parsed == IF OrdersOfSignal(me.signal.id) # {}
                  THEN invalid(Str("Incomplete signal data"))
                  ELSE parse_signal(me.signal.raw_message)
    IN  /\ me.pc = "P_parse"
        /\ IF parsed.valid
           THEN /\ SetWorker(w, [me EXCEPT !.pc = "P_create", !.data = parsed.data])
                /\ UNCHANGED db_signals
           ELSE IF db_up
           THEN /\ db_signals' = [db_signals EXCEPT
                       ![me.signal.id].status = rejected_status,
                       ![me.signal.id].error_message = parsed.error]
                /\ SetWorker(w, [me EXCEPT !.pc = "P_notify",
                       !.signal.status = rejected_status,
                       !.signal.error_message = parsed.error])
           ELSE /\ SetWorker(w, [me EXCEPT !.pc = "P_handler", !.exc = OperationalError,
                       !.signal.status = rejected_status,
                       !.signal.error_message = parsed.error])
                /\ UNCHANGED db_signals
        /\ UNCHANGED <<db_orders, db_history, next_pk, queue, sent, enqueued, db_up,
                       channel_up, faults, consumers>>

\* lines 26-31 and 42: parse; a rejected text is stored as failed
ParseSignal(w) ==
    LET me     == workers[w]
        parsed == parse_signal(me.signal.raw_message)
    IN  /\ me.pc = "P_parse"
        /\ IF parsed.valid
           THEN /\ SetWorker(w, [me EXCEPT !.pc = "P_create", !.data = parsed.data])
                /\ UNCHANGED db_signals
           ELSE IF db_up
           THEN /\ db_signals' = [db_signals EXCEPT
                       ![me.signal.id].status = rejected_status,
                       ![me.signal.id].error_message = parsed.error]
                /\ SetWorker(w, [me EXCEPT !.pc = "P_notify",
                       !.signal.status = rejected_status,
                       !.signal.error_message = parsed.error])
           ELSE /\ SetWorker(w, [me EXCEPT !.pc = "P_handler", !.exc = OperationalError,
                       !.signal.status = rejected_status,
                       !.signal.error_message = parsed.error])
                /\ UNCHANGED db_signals
        /\ UNCHANGED <<db_orders, db_history, next_pk, queue, sent, enqueued, db_up,
                       channel_up, faults, consumers>>

\* lines 32-40: build the signal.invalid event (signal.user is read from the
\* database) and hand it to notify_signal_invalid
invalid_event_without_reason(signal) ==
    [event |-> "signal.invalid", trading_id |-> signal.id, user |-> signal.user,
     account_id |-> signal.account, error_message |-> None]

\* lines 32-38: the signal.invalid event
invalid_event(signal) ==
    [event |-> "signal.invalid", trading_id |-> signal.id, user |-> signal.user,
     account_id |-> signal.account, error_message |-> signal.error_message]

NotifyInvalid(w) ==
    LET me   == workers[w]
        data == invalid_event(me.signal)
    IN  /\ me.pc = "P_notify"
        /\ IF db_up
           THEN /\ queue' = delay(queue, "notify_signal_invalid", data)
                /\ enqueued' = record_delay(enqueued, "notify_signal_invalid", data)
                /\ SetWorker(w, [me EXCEPT !.pc = "done"])
           ELSE /\ SetWorker(w, [me EXCEPT !.pc = "P_handler", !.exc = OperationalError])
                /\ UNCHANGED <<queue, enqueued>>
        /\ UNCHANGED <<db_signals, db_orders, db_history, next_pk, sent, db_up,
                       channel_up, faults, consumers>>

\* variant with a seeded fault: the primary key of a rolled-back insert is given out
\* again (the key after the highest committed one)
new_order_reuses_pk(w) ==
    LET me == workers[w]
    IN  [id          |-> Cardinality(db_orders) + 1,
         order_id    |-> generate_custom_id(db_orders \ LockedOrders(w)),
         signal      |-> me.signal.id,
         user        |-> me.signal.user,
         action      |-> me.data.action,
         instrument  |-> me.data.instrument,
         entry_price |-> round_half_up(me.data.price, decimal_places),
         stop_loss   |-> round_half_up(me.data.stop_loss, decimal_places),
         take_profit |-> round_half_up(me.data.take_profit, decimal_places),
         status      |-> "pending"]

\* the Order built by lines 44-57 (Order.objects.create, then action and save)
new_order(w) ==
    LET me == workers[w]
    IN  [id          |-> next_pk.order,
         order_id    |-> generate_custom_id(db_orders \ LockedOrders(w)),
         signal      |-> me.signal.id,
         user        |-> me.signal.user,
         action      |-> me.data.action,
         instrument  |-> me.data.instrument,
         entry_price |-> round_half_up(me.data.price, decimal_places),
         stop_loss   |-> round_half_up(me.data.stop_loss, decimal_places),
         take_profit |-> round_half_up(me.data.take_profit, decimal_places),
         status      |-> "pending"]

\* lines 43-57: open the transaction, validate (Order.save calls full_clean)
\* and insert; the insert waits while another open transaction holds a row
\* with the same unique key
CreateOrder(w) ==
    LET me  == workers[w]
        o   == new_order(w)
        bad == full_clean(o, db_orders)
    IN  /\ me.pc = "P_create"
        /\ IF ~db_up
           THEN /\ SetWorker(w, [me EXCEPT !.pc = "P_handler", !.exc = OperationalError])
                /\ UNCHANGED next_pk
           ELSE IF bad # {}
           THEN /\ SetWorker(w, [me EXCEPT !.pc = "P_handler", !.exc = ValidationError(bad)])
                /\ UNCHANGED next_pk
           ELSE /\ SetWorker(w, [me EXCEPT !.order = o,
                       !.pc = IF InsertConflict(w, o) THEN "P_blocked" ELSE "P_broadcast"])
                /\ next_pk' = [next_pk EXCEPT !.order = @ + 1]
        /\ UNCHANGED <<db_signals, db_orders, db_history, queue, sent, enqueued, db_up,
                       channel_up, faults, consumers>>

\* the waiting insert goes on once the other transaction has ended
InsertUnblocked(w) ==
    LET me == workers[w]
    IN  /\ me.pc = "P_blocked"
        /\ ~InsertConflict(w, me.order)
        /\ IF ~db_up
           THEN SetWorker(w, [me EXCEPT !.pc = "P_handler", !.exc = OperationalError])
           ELSE IF unique_violation(me.order, db_orders)
           THEN SetWorker(w, [me EXCEPT !.pc = "P_handler", !.exc = IntegrityError])
           ELSE SetWorker(w, [me EXCEPT !.pc = "P_broadcast"])
        /\ UNCHANGED <<db_signals, db_orders, db_history, next_pk, queue, sent, enqueued,
                       db_up, channel_up, faults, consumers>>

\* f"order.{status}"
event_type(status) == "order." \o status

\* lines 58-65: the order.pending event; float(order.entry_price) raises
\* TypeError when the signal carried no price
BroadcastPending(w) ==
    LET me   == workers[w]
        data == [type |-> event_type(me.order.status), order_id |-> me.order.order_id,
                 instrument |-> me.order.instrument,
                 entry_price |-> me.order.entry_price, status |-> me.order.status]
    IN  /\ me.pc = "P_broadcast"
        /\ IF me.order.entry_price = None
           THEN /\ SetWorker(w, [me EXCEPT !.pc = "P_handler", !.exc = TypeErrorNone])
                /\ UNCHANGED <<queue, enqueued>>
           ELSE /\ queue' = delay(queue, "broadcast_order_event", data)
                /\ enqueued' = record_delay(enqueued, "broadcast_order_event", data)
                /\ SetWorker(w, [me EXCEPT !.pc = "P_lifecycle"])
        /\ UNCHANGED <<db_signals, db_orders, db_history, next_pk, sent, db_up,
                       channel_up, faults, consumers>>

\* line 67: simulate_order_lifecycle.delay(order.id)
EnqueueLifecycle(w) ==
    LET me  == workers[w]
        arg == [order_pk |-> me.order.id]
    IN  /\ me.pc = "P_lifecycle"
        /\ queue' = delay(queue, "simulate_order_lifecycle", arg)
        /\ enqueued' = record_delay(enqueued, "simulate_order_lifecycle", arg)
        /\ SetWorker(w, [me EXCEPT !.pc = "P_commit"])
        /\ UNCHANGED <<db_signals, db_orders, db_history, next_pk, sent, db_up,
                       channel_up, faults, consumers>>

\* the rows an atomic block leaves when it commits
committed(rows, written) == {r \in rows : \A x \in written : x.id # r.id} \cup written

\* variant with a seeded fault: no atomic block, every statement is committed on its own
rolled_back_autocommit(rows, written) == committed(rows, written)

\* the rows an atomic block leaves when it ends with an exception
rolled_back(rows, written) == rows

\* lines 71-77: insert the first OrderHistory row and commit the atomic block
CommitOrder(w) ==
    LET me  == workers[w]
        row == [id |-> next_pk.history, order |-> me.order.id, status |-> "pending"]
    IN  /\ me.pc = "P_commit"
        /\ IF db_up
           THEN /\ db_orders' = committed(db_orders, {me.order})
                /\ db_history' = committed(db_history, {row})
                /\ next_pk' = [next_pk EXCEPT !.history = @ + 1]
                /\ SetWorker(w, [me EXCEPT !.pc = "P_success"])
           ELSE /\ db_orders' = rolled_back(db_orders, {me.order})
                /\ db_history' = rolled_back(db_history, {})
                /\ UNCHANGED next_pk
                /\ SetWorker(w, [me EXCEPT !.pc = "P_handler", !.exc = OperationalError])
        /\ UNCHANGED <<db_signals, queue, sent, enqueued, db_up, channel_up, faults, consumers>>

\* lines 79-80: signal.save() writes every field of the loaded signal
MarkSuccess(w) ==
    LET me == workers[w]
    IN  /\ me.pc = "P_success"
        /\ IF db_up
           THEN /\ db_signals' = [db_signals EXCEPT ![me.signal.id] =
                       [status |-> "success",
                        error_message |-> me.signal.error_message,
                        raw_message |-> me.signal.raw_message,
                        account |-> me.signal.account,
                        user |-> me.signal.user]]
                /\ SetWorker(w, [me EXCEPT !.pc = "done", !.signal.status = "success"])
           ELSE /\ SetWorker(w, [me EXCEPT !.pc = "P_handler", !.exc = OperationalError,
                       !.signal.status = "success"])
                /\ UNCHANGED db_signals
        /\ UNCHANGED <<db_orders, db_history, next_pk, queue, sent, enqueued, db_up,
                       channel_up, faults, consumers>>

\* lines 82-86: store failed with the exception text and re-raise; the
\* retry policy then decides about the message
HandleException(w) ==
    LET me == workers[w]
    IN  /\ me.pc = "P_handler"
        /\ IF db_up
           THEN db_signals' = [db_signals EXCEPT
                    ![me.signal.id].status = "failed",
                    ![me.signal.id].error_message = me.exc]
           ELSE UNCHANGED db_signals
        /\ queue' = autoretry(queue, me.msg)
        /\ SetWorker(w, Idle)
        /\ UNCHANGED <<db_orders, db_history, next_pk, sent, enqueued, db_up,
                       channel_up, faults, consumers>>

\* the task returned: the message is acknowledged (acks_late)
Ack(w) ==
    /\ workers[w].pc = "done"
    /\ SetWorker(w, Idle)
    /\ UNCHANGED <<db_signals, db_orders, db_history, next_pk, queue, sent, enqueued,
                   db_up, channel_up, faults, consumers>>

\* ------------------------------------------------------------------------
\* simulate_order_lifecycle
\* ------------------------------------------------------------------------

\* the status each of the two transitions writes
target_status(stage) == IF stage = 1 THEN "executed" ELSE "closed"

\* variant with a seeded fault: a missing order raises and the message is sent again
not_found_raises(q, m) == autoretry(take(q, m), m)

\* lines 21-23: the order is missing; the task logs a warning and returns,
\* its message leaves the queue for good
not_found(q, m) == take(q, m)

\* lines 20-23: load the order; a missing order is logged and the task returns
StartLifecycle(w, m) ==
    /\ FreeWorker(w)
    /\ BagIn(m, queue)
    /\ m.task = "simulate_order_lifecycle"
    /\ LET found == {o \in db_orders : o.id = m.arg.order_pk}
       IN  IF ~db_up
           THEN /\ queue' = autoretry(take(queue, m), m)
                /\ UNCHANGED workers
           ELSE IF found = {}
           THEN /\ queue' = not_found(queue, m)
                /\ SetWorker(w, [Idle EXCEPT !.pc = "done", !.msg = m])
           ELSE /\ queue' = take(queue, m)
                /\ SetWorker(w, [Idle EXCEPT !.pc = "L_update", !.msg = m,
                       !.order = CHOOSE o \in found : TRUE, !.stage = 1])
    /\ UNCHANGED <<db_signals, db_orders, db_history, next_pk, sent, enqueued, db_up,
                   channel_up, faults, consumers>>

\* lines 26-30 and 49-53: after the sleep, open the transaction and update
\* the status (Order.save validates first); the update waits for the row lock
UpdateStatus(w) ==
    LET me  == workers[w]
        o   == [me.order EXCEPT !.status = target_status(me.stage)]
        bad == full_clean(o, db_orders)
    IN  /\ me.pc = "L_update"
        /\ \A v \in Workers \ {w} : ~(HoldsRowLock(v) /\ workers[v].order.id = me.order.id)
        /\ IF db_up /\ bad = {}
           THEN /\ SetWorker(w, [me EXCEPT !.pc = "L_broadcast", !.order = o])
                /\ UNCHANGED queue
           ELSE /\ queue' = autoretry(queue, me.msg)
                /\ SetWorker(w, Idle)
        /\ UNCHANGED <<db_signals, db_orders, db_history, next_pk, sent, enqueued, db_up,
                       channel_up, faults, consumers>>

\* lines 32-39 and 55-64: hand the order.<status> event to broadcast_order_event
BroadcastStatus(w) ==
    LET me   == workers[w]
        data == [type |-> event_type(me.order.status), order_id |-> me.order.order_id,
                 instrument |-> me.order.instrument,
                 entry_price |-> me.order.entry_price, status |-> me.order.status]
    IN  /\ me.pc = "L_broadcast"
        /\ IF me.order.entry_price = None
           THEN \* float(None) raises: the block rolls back, the task raises
                /\ queue' = autoretry(queue, me.msg)
                /\ UNCHANGED enqueued
                /\ SetWorker(w, Idle)
           ELSE /\ queue' = delay(queue, "broadcast_order_event", data)
                /\ enqueued' = record_delay(enqueued, "broadcast_order_event", data)
                /\ SetWorker(w, [me EXCEPT !.pc = "L_commit"])
        /\ UNCHANGED <<db_signals, db_orders, db_history, next_pk, sent, db_up,
                       channel_up, faults, consumers>>

\* variant with a seeded fault: clean() generates a new order_id on every save and
\* save() writes every field of the loaded order
status_updated_full_save(o) ==
    [o EXCEPT !.order_id = generate_custom_id(db_orders)]

\* the Order row after save(update_fields=["status"]): full_clean leaves an
\* order that has its order_id as it is, and only the status column is written
status_updated(o) ==
    LET row == CHOOSE r \in db_orders : r.id = o.id
    IN  [row EXCEPT !.status = o.status]

\* lines 41-47 and 66-72: insert the OrderHistory row and commit
CommitStatus(w) ==
    LET me  == workers[w]
        row == [id |-> next_pk.history, order |-> me.order.id, status |-> me.order.status]
    IN  /\ me.pc = "L_commit"
        /\ IF db_up
           THEN /\ db_orders' = committed(db_orders, {status_updated(me.order)})
                /\ db_history' = committed(db_history, {row})
                /\ next_pk' = [next_pk EXCEPT !.history = @ + 1]
                /\ SetWorker(w, IF me.stage = 1
                                THEN [me EXCEPT !.pc = "L_update", !.stage = 2]
                                ELSE [me EXCEPT !.pc = "done"])
                /\ UNCHANGED queue
           ELSE /\ db_orders' = rolled_back(db_orders, {status_updated(me.order)})
                /\ db_history' = rolled_back(db_history, {})
                /\ UNCHANGED next_pk
                /\ queue' = autoretry(queue, me.msg)
                /\ SetWorker(w, Idle)
        /\ UNCHANGED <<db_signals, sent, enqueued, db_up, channel_up, faults, consumers>>

\* ------------------------------------------------------------------------
\* broadcast_order_event and notify_signal_invalid
\* ------------------------------------------------------------------------

group_name(task) ==
    IF task = "notify_signal_invalid" THEN "signal_invalid" ELSE "orders_group"

\* SignalInvalidConsumer.connect, line 8: the group every connection joins
consumer_group(c) == "signal_invalid"

\* channel_layer.group_send, then signal_invalid_event on every connection
\* of the group: the event's data is sent to the client
group_send(group, data) ==
    [c \in Connections |->
        IF consumers[c].connected /\ consumer_group(c) = group
        THEN [consumers[c] EXCEPT !.received = @ \cup {data}]
        ELSE consumers[c]]

\* SignalInvalidConsumer.connect: group_add, accept
Connect(c) ==
    /\ ~consumers[c].connected
    /\ channel_up
    /\ consumers' = [consumers EXCEPT ![c].connected = TRUE]
    /\ UNCHANGED <<db_signals, db_orders, db_history, next_pk, queue, workers, sent,
                   enqueued, db_up, channel_up, faults>>

\* SignalInvalidConsumer.disconnect: group_discard
Disconnect(c) ==
    /\ consumers[c].connected
    /\ consumers' = [consumers EXCEPT ![c].connected = FALSE]
    /\ UNCHANGED <<db_signals, db_orders, db_history, next_pk, queue, workers, sent,
                   enqueued, db_up, channel_up, faults>>

\* variant with a seeded fault: the except clause logs the failure and returns
RunBroadcast_swallows(w, m) ==
    /\ FreeWorker(w)
    /\ BagIn(m, queue)
    /\ m.task \in {"broadcast_order_event", "notify_signal_invalid"}
    /\ IF channel_up
       THEN /\ sent' = sent \cup {[group |-> group_name(m.task), data |-> m.arg]}
            /\ consumers' = group_send(group_name(m.task), m.arg)
            /\ queue' = take(queue, m)
       ELSE /\ queue' = take(queue, m)
            /\ UNCHANGED <<sent, consumers>>
    /\ UNCHANGED <<db_signals, db_orders, db_history, next_pk, workers, enqueued, db_up,
                   channel_up, faults>>

\* group_send to the channel layer; a failure is logged and raised again
RunBroadcast(w, m) ==
    /\ FreeWorker(w)
    /\ BagIn(m, queue)
    /\ m.task \in {"broadcast_order_event", "notify_signal_invalid"}
    /\ IF channel_up
       THEN /\ sent' = sent \cup {[group |-> group_name(m.task), data |-> m.arg]}
            /\ consumers' = group_send(group_name(m.task), m.arg)
            /\ queue' = take(queue, m)
       ELSE /\ queue' = autoretry(take(queue, m), m)
            /\ UNCHANGED <<sent, consumers>>
    /\ UNCHANGED <<db_signals, db_orders, db_history, next_pk, workers, enqueued, db_up,
                   channel_up, faults>>

\* ------------------------------------------------------------------------
\* Environment: outages, lost workers, redelivery
\* ------------------------------------------------------------------------

DatabaseDown ==
    /\ db_up
    /\ faults < MaxFaults
    /\ db_up' = FALSE
    /\ faults' = faults + 1
    /\ UNCHANGED <<db_signals, db_orders, db_history, next_pk, queue, workers, sent,
                   enqueued, channel_up, consumers>>

DatabaseRestored ==
    /\ ~db_up
    /\ db_up' = TRUE
    /\ UNCHANGED <<db_signals, db_orders, db_history, next_pk, queue, workers, sent,
                   enqueued, channel_up, faults, consumers>>

ChannelDown ==
    /\ channel_up
    /\ faults < MaxFaults
    /\ channel_up' = FALSE
    /\ faults' = faults + 1
    /\ UNCHANGED <<db_signals, db_orders, db_history, next_pk, queue, workers, sent,
                   enqueued, db_up, consumers>>

ChannelRestored ==
    /\ ~channel_up
    /\ channel_up' = TRUE
    /\ UNCHANGED <<db_signals, db_orders, db_history, next_pk, queue, workers, sent,
                   enqueued, db_up, faults, consumers>>

\* the worker process is lost in the middle of a task: its open transaction
\* is rolled back and the unacknowledged message goes back to the queue
\* (task_acks_late, task_reject_on_worker_lost)
WorkerLost(w) ==
    /\ workers[w].pc # "idle"
    /\ faults < MaxFaults
    /\ faults' = faults + 1
    /\ queue' = queue (+) SetToBag({workers[w].msg})
    /\ SetWorker(w, Idle)
    /\ UNCHANGED <<db_signals, db_orders, db_history, next_pk, sent, enqueued, db_up,
                   channel_up, consumers>>

\* the broker delivers an unacknowledged message a second time while the
\* first execution is still running (at-least-once delivery)
Redeliver(w) ==
    /\ workers[w].pc # "idle"
    /\ faults < MaxFaults
    /\ faults' = faults + 1
    /\ queue' = queue (+) SetToBag({workers[w].msg})
    /\ UNCHANGED <<db_signals, db_orders, db_history, next_pk, workers, sent, enqueued,
                   db_up, channel_up, consumers>>

\* ------------------------------------------------------------------------
\* Specification
\* ------------------------------------------------------------------------

Next ==
    \/ \E text \in Messages : ReceiveSignal(WebhookAccount, text, MaxSignals)
    \/ \E w \in Workers : \E m \in BagToSet(queue) : StartProcess(w, m)
    \/ \E w \in Workers : ParseSignal(w)
    \/ \E w \in Workers : NotifyInvalid(w)
    \/ \E w \in Workers : CreateOrder(w)
    \/ \E w \in Workers : InsertUnblocked(w)
    \/ \E w \in Workers : BroadcastPending(w)
    \/ \E w \in Workers : EnqueueLifecycle(w)
    \/ \E w \in Workers : CommitOrder(w)
    \/ \E w \in Workers : MarkSuccess(w)
    \/ \E w \in Workers : HandleException(w)
    \/ \E w \in Workers : Ack(w)
    \/ \E w \in Workers : \E m \in BagToSet(queue) : StartLifecycle(w, m)
    \/ \E w \in Workers : UpdateStatus(w)
    \/ \E w \in Workers : BroadcastStatus(w)
    \/ \E w \in Workers : CommitStatus(w)
    \/ \E w \in Workers : \E m \in BagToSet(queue) : RunBroadcast(w, m)
    \/ DatabaseDown
    \/ DatabaseRestored
    \/ ChannelDown
    \/ ChannelRestored
    \/ \E w \in Workers : WorkerLost(w)
    \/ \E w \in Workers : Redeliver(w)

Spec == Init /\ [][Next]_vars

\* ------------------------------------------------------------------------
\* Properties
\* ------------------------------------------------------------------------

\* every message waiting in the queue or held by a worker
InFlight == BagToSet(queue) \cup {workers[w].msg : w \in {v \in Workers : workers[v].pc # "idle"}}

\* the statuses of a set of OrderHistory rows in creation (id) order
RECURSIVE StatusesById(_)
StatusesById(rows) ==
    IF rows = {} THEN << >>
    ELSE LET first == CHOOSE r \in rows : \A x \in rows : r.id <= x.id
         IN  <<first.status>> \o StatusesById(rows \ {first})

\* the most recently created OrderHistory row of an order
LatestHistory(oid) ==
    CHOOSE h \in HistoryOf(oid) : \A x \in HistoryOf(oid) : x.id <= h.id

\* how many delay calls so far satisfy a test on (task, arg)
RECURSIVE CountCalls(_, _)
CountCalls(calls, bag) ==
    IF calls = {} THEN 0
    ELSE LET c == CHOOSE x \in calls : TRUE
         IN  CopiesIn(c, bag) + CountCalls(calls \ {c}, bag)

LifecycleCalls(pk) ==
    CountCalls({e \in BagToSet(enqueued) :
                   e.task = "simulate_order_lifecycle" /\ e.arg.order_pk = pk}, enqueued)

BroadcastCalls(type, order_id) ==
    CountCalls({e \in BagToSet(enqueued) :
                   /\ e.task = "broadcast_order_event"
                   /\ e.arg.type = type
                   /\ e.arg.order_id = order_id}, enqueued)

\* C1: the stored status of a RawSignal only changes pending->processing,
\* processing->success or processing->failed, over every sequence of
\* executions; success and failed are never left.
LegalSignalStep(a, b) ==
    \/ a = b
    \/ <<a, b>> \in {<<"pending", "processing">>, <<"processing", "success">>,
                     <<"processing", "failed">>}

C1_SignalTransitions ==
    [][\A i \in DOMAIN db_signals :
          LegalSignalStep(db_signals[i].status, db_signals'[i].status)]_vars

\* C2: in every committed state at most one Order is linked to a RawSignal,
\* however often and however concurrently the task runs for that signal.
C2_OneOrderPerSignal ==
    \A i \in DOMAIN db_signals : Cardinality(OrdersOfSignal(i)) <= 1

\* C2 witness: the task was run again for a signal that already had its
\* order, got as far as the order creation and was refused there.
C2_Witness ==
    \E w \in Workers :
        /\ workers[w].pc = "P_handler"
        /\ workers[w].rerun
        /\ workers[w].data # None
        /\ Cardinality(OrdersOfSignal(workers[w].signal.id)) = 1

\* the first execution of the task for a signal has ended
FirstRunOver(sid) ==
    /\ db_signals[sid].status # "pending"
    /\ \A m \in InFlight :
          m.task = "process_signal_task" /\ m.arg.signal_id = sid => m.retries > 0

\* C3: for every text the parser accepts, with or without a price, a run of
\* the task without infrastructure fault ends with exactly one Order linked
\* to the signal, created pending with exactly one pending OrderHistory row,
\* exactly one lifecycle task and one order.pending broadcast enqueued for
\* it, and the signal in status success.
C3_ValidSignalMakesOrder ==
    \A sid \in DOMAIN db_signals :
        (/\ faults = 0
         /\ parse_signal(db_signals[sid].raw_message).valid
         /\ FirstRunOver(sid))
        => /\ db_signals[sid].status = "success"
           /\ Cardinality(OrdersOfSignal(sid)) = 1
           /\ \A o \in OrdersOfSignal(sid) :
                 /\ Cardinality({h \in HistoryOf(o.id) : h.status = "pending"}) = 1
                 /\ Head(StatusesById(HistoryOf(o.id))) = "pending"
                 /\ LifecycleCalls(o.id) = 1
                 /\ BroadcastCalls("order.pending", o.order_id) = 1

\* a lifecycle execution that found its order has returned
LifecycleReturned(w) ==
    /\ workers[w].pc = "done"
    /\ workers[w].msg.task = "simulate_order_lifecycle"
    /\ workers[w].order # None

\* C4: when a lifecycle run returns without raising, also a run retried after
\* a failure in either transition, the order has exactly the three
\* OrderHistory rows pending, executed, closed, in that creation order, and
\* its stored status is closed.
C4_ThreeHistoryRows ==
    \A w \in Workers :
        LifecycleReturned(w)
        => /\ StatusesById(HistoryOf(workers[w].order.id)) = <<"pending", "executed", "closed">>
           /\ \A o \in db_orders : o.id = workers[w].order.id => o.status = "closed"

\* C5: the stored status of an Order only changes pending->executed and
\* executed->closed, over every interleaving of first runs, retries and
\* duplicate deliveries of the lifecycle task.
LegalOrderStep(a, b) ==
    \/ a = b
    \/ <<a, b>> \in {<<"pending", "executed">>, <<"executed", "closed">>}

C5_OrderTransitions ==
    [][\A o \in db_orders : \A n \in db_orders' :
          o.id = n.id => LegalOrderStep(o.status, n.status)]_vars

\* the orders, committed or held by a still open transaction, with a given key
LiveOrdersByPk(pk) ==
    {o \in db_orders : o.id = pk}
    \cup {workers[w].order : w \in {v \in Workers : HoldsInsert(v) /\ workers[v].order.id = pk}}

LiveOrdersByOrderId(k) ==
    {o \in db_orders : o.order_id = k}
    \cup {workers[w].order : w \in {v \in Workers : HoldsInsert(v) /\ workers[v].order.order_id = k}}

\* C6: a lifecycle task or an order.pending broadcast is in the task queue's
\* history only for an Order whose creating transaction commits: once that
\* transaction has rolled back, nothing was enqueued for it.
C6_EnqueueOnlyIfCommitted ==
    \A e \in BagToSet(enqueued) :
        /\ e.task = "simulate_order_lifecycle" => LiveOrdersByPk(e.arg.order_pk) # {}
        /\ (e.task = "broadcast_order_event" /\ e.arg.type = "order.pending")
           => BroadcastCalls("order.pending", e.arg.order_id)
                 <= Cardinality(LiveOrdersByOrderId(e.arg.order_id))

\* C7: an execution that starts when the Order of its signal is already
\* committed does not raise, and when it returns the signal is success with
\* no error message, one order, and nothing more enqueued.
C7_RerunIsHarmless ==
    \A w \in Workers :
        (workers[w].pc # "idle" /\ workers[w].msg.task = "process_signal_task"
         /\ workers[w].rerun)
        => /\ workers[w].pc # "P_handler"
           /\ workers[w].pc = "done"
              => /\ db_signals[workers[w].signal.id].status = "success"
                 /\ db_signals[workers[w].signal.id].error_message = None
                 /\ \A o \in OrdersOfSignal(workers[w].signal.id) :
                       LifecycleCalls(o.id) = 1

\* C8: in every committed state every Order has at least one OrderHistory
\* row and its most recently created row carries the order's stored status.
C8_StatusHasHistory ==
    \A o \in db_orders :
        /\ HistoryOf(o.id) # {}
        /\ LatestHistory(o.id).status = o.status

\* C8 witness: the closing transaction of an order was rolled back after its
\* status update and its broadcast (the event was enqueued, no transaction
\* is open, the order is still executed).
C8_Witness ==
    \E o \in db_orders :
        /\ o.status = "executed"
        /\ BroadcastCalls("order.closed", o.order_id) >= 1
        /\ \A w \in Workers : ~(HoldsRowLock(w) /\ workers[w].order.id = o.id)
        /\ Cardinality(HistoryOf(o.id)) = 2

\* C9 as stated: whenever an Order linked to a RawSignal is committed, that
\* RawSignal's stored status is success.
C9_OrderImpliesSuccess ==
    \A o \in db_orders : db_signals[o.signal].status = "success"

\* C9 amended: the success write follows the commit of the order: whenever a
\* RawSignal's stored status is success, an Order linked to it is committed
\* together with its pending OrderHistory row.
C9_SuccessImpliesOrder ==
    \A i \in DOMAIN db_signals :
        db_signals[i].status = "success"
        => \E o \in OrdersOfSignal(i) : \E h \in HistoryOf(o.id) : h.status = "pending"

\* C9 witness: an order is committed and its signal has been marked success.
C9_Witness ==
    \E o \in db_orders : db_signals[o.signal].status = "success"

\* C10 as stated: no message is executed more than 3 times in total (an
\* execution with retry count r is the (r + 1)-th of its message).
C10_AtMostThreeExecutions ==
    \A m \in InFlight : m.retries + 1 <= max_retries

\* C10 amended: a message whose body raises on every execution is executed
\* at most max_retries + 1 = 4 times: the first execution and 3 retries.
C10_AtMostFourExecutions ==
    \A m \in InFlight : m.retries + 1 <= max_retries + 1

\* C10 witness: the fourth execution of process_signal_task (retry count 3)
\* has raised and is about to be given up.
C10_Witness ==
    \E w \in Workers :
        /\ workers[w].pc = "P_handler"
        /\ workers[w].msg.retries = max_retries

\* the worker's execution of process_signal_task is for a text the parser rejects
RunsRejected(w) ==
    /\ workers[w].pc # "idle"
    /\ workers[w].msg.task = "process_signal_task"
    /\ ~parse_signal(workers[w].signal.raw_message).valid

\* C11: for a signal whose text the parser rejects, a run without
\* infrastructure fault first stores failed with the parser's reason and
\* then hands exactly one signal.invalid event carrying account, user and
\* that reason to notify_signal_invalid and returns; neither step creates an
\* Order or an OrderHistory row or enqueues anything else.
C11_RejectedSignal ==
    [][\A w \in Workers :
          LET me     == workers[w]
              sid    == me.signal.id
              reason == parse_signal(me.signal.raw_message).error
          IN  (faults' = 0 /\ RunsRejected(w) /\ me.pc # "done" /\ workers'[w] # me)
              => /\ db_signals'[sid].status = "failed"
                 /\ db_signals'[sid].error_message = reason
                 /\ db_orders' = db_orders
                 /\ db_history' = db_history
                 /\ \/ /\ me.pc = "P_parse"
                       /\ workers'[w].pc = "P_notify"
                       /\ enqueued' = enqueued
                    \/ /\ me.pc = "P_notify"
                       /\ workers'[w].pc = "done"
                       /\ enqueued' = record_delay(enqueued, "notify_signal_invalid",
                              [event |-> "signal.invalid", trading_id |-> sid,
                               user |-> account_user(db_signals[sid].account),
                               account_id |-> db_signals[sid].account,
                               error_message |-> reason])]_vars

\* C11 witness: a run for a rejected text has returned without any fault and
\* its event is in the queue's history.
C11_Witness ==
    \E w \in Workers :
        /\ faults = 0
        /\ RunsRejected(w)
        /\ workers[w].pc = "done"
        /\ \E e \in BagToSet(enqueued) :
              e.task = "notify_signal_invalid" /\ e.arg.trading_id = workers[w].signal.id

\* C12: a rejection by the parser is terminal: no execution for a rejected
\* text ends by raising (none reaches the exception handler, so none is sent
\* again by the retry policy), and whenever such a signal is stored as
\* failed its error_message is the parser's reason, also in an execution in
\* which building or handing over the signal.invalid event fails.
C12_RejectionNeverRaises ==
    /\ \A w \in Workers : RunsRejected(w) => workers[w].pc # "P_handler"
    /\ \A sid \in DOMAIN db_signals :
          (/\ ~parse_signal(db_signals[sid].raw_message).valid
           /\ db_signals[sid].status = "failed")
          => db_signals[sid].error_message = parse_signal(db_signals[sid].raw_message).error

\* ------------------------------------------------------------------------
\* Further specifications over the same actions
\* ------------------------------------------------------------------------

\* the admin site deletes a TradingSignal that no task has touched yet
DeleteSignal(sid) ==
    /\ sid \in DOMAIN db_signals
    /\ db_signals[sid].status = "pending"
    /\ db_up
    /\ db_signals' = [i \in DOMAIN db_signals \ {sid} |-> db_signals[i]]
    /\ UNCHANGED <<db_orders, db_history, next_pk, queue, workers, sent, enqueued, db_up,
                   channel_up, faults, consumers>>

\* signals received in a behaviour of the specifications that have several
\* signals and no infrastructure fault
MaxSignalsNoFault == 2

\* their texts: one the parser accepts, one it rejects
MessagesNoFault == {MsgBuyPrice, MsgOneLine}

\* one step of a task on a worker, the parsing step and the waiting insert
\* apart
AfterParseNext ==
    \/ \E w \in Workers : \E m \in BagToSet(queue) : StartProcess(w, m)
    \/ \E w \in Workers : NotifyInvalid(w)
    \/ \E w \in Workers : CreateOrder(w)
    \/ \E w \in Workers : BroadcastPending(w)
    \/ \E w \in Workers : EnqueueLifecycle(w)
    \/ \E w \in Workers : CommitOrder(w)
    \/ \E w \in Workers : MarkSuccess(w)
    \/ \E w \in Workers : HandleException(w)
    \/ \E w \in Workers : Ack(w)
    \/ \E w \in Workers : \E m \in BagToSet(queue) : StartLifecycle(w, m)
    \/ \E w \in Workers : UpdateStatus(w)
    \/ \E w \in Workers : BroadcastStatus(w)
    \/ \E w \in Workers : CommitStatus(w)
    \/ \E w \in Workers : \E m \in BagToSet(queue) : RunBroadcast(w, m)

\* one step of a task on a worker whose insert never waits for another
\* transaction
SoloTaskNext ==
    \/ \E w \in Workers : ParseSignal(w)
    \/ AfterParseNext

\* one step of a task on a worker
TaskNext ==
    \/ SoloTaskNext
    \/ \E w \in Workers : InsertUnblocked(w)

\* one signal and no infrastructure fault: the webhook and the tasks (with
\* one signal and one delivery no insert waits for another transaction)
NextFair ==
    \/ \E text \in Messages : ReceiveSignal(WebhookAccount, text, MaxSignals)
    \/ SoloTaskNext

\* the workers keep running: a task step that stays possible is taken.
\* ParseSignal(w) is possible exactly at P_parse and always leaves it, so its
\* weak fairness is stated as: no worker stays at P_parse for ever.
FairSpec ==
    /\ Init
    /\ [][NextFair]_vars
    /\ WF_vars(AfterParseNext)
    /\ \A w \in Workers : []<>(workers[w].pc # "P_parse")

\* several signals and no infrastructure fault; the admin site may delete a
\* signal before its task runs
NextNoFault ==
    \/ \E text \in MessagesNoFault : ReceiveSignal(WebhookAccount, text, MaxSignalsNoFault)
    \/ \E sid \in DOMAIN db_signals : DeleteSignal(sid)
    \/ TaskNext

SpecNoFault == Init /\ [][NextNoFault]_vars

\* C13: a task started for a signal id that does not exist ends without
\* raising and is not sent again: no message of process_signal_task for a
\* missing signal ever carries a retry count above 0.
C13_MissingSignalNotRetried ==
    \A m \in InFlight :
        (m.task = "process_signal_task" /\ m.arg.signal_id \notin DOMAIN db_signals)
        => m.retries = 0

\* C14: a lifecycle task started for an order id that has no row returns at
\* once (it never reaches the wait before a transition), its message is not
\* sent again, and neither the start nor the return appends an OrderHistory
\* row, enqueues an event or changes a stored Order.
C14_MissingOrderReturns ==
    [][\A w \in Workers :
          LET now == workers'[w]
          IN  /\ (/\ workers[w].pc = "idle"
                  /\ now.pc # "idle"
                  /\ now.msg.task = "simulate_order_lifecycle"
                  /\ \A o \in db_orders : o.id # now.msg.arg.order_pk)
                 => /\ now.pc = "done"
                    /\ queue' = take(queue, now.msg)
                    /\ UNCHANGED <<db_orders, db_history, enqueued>>
              /\ (/\ workers[w].pc = "done"
                  /\ workers[w].msg.task = "simulate_order_lifecycle"
                  /\ workers[w].order = None
                  /\ now # workers[w]
                  /\ faults' = faults)
                 => UNCHANGED <<queue, db_orders, db_history, enqueued>>]_vars

\* C14 witness: a lifecycle task found no order and has returned.
C14_Witness ==
    \E w \in Workers :
        /\ workers[w].pc = "done"
        /\ workers[w].msg.task = "simulate_order_lifecycle"
        /\ workers[w].order = None
        /\ \A o \in db_orders : o.id # workers[w].msg.arg.order_pk

\* C15: whenever an execution of process_signal_task ends by raising an
\* exception that occurred after the processing write, the stored status of
\* its RawSignal is failed and the stored error_message is the text of that
\* exception (so after the last retry the signal stays failed with the last
\* exception's text).
C15_RaiseStoresFailed ==
    [][\A w \in Workers :
          (workers[w].pc = "P_handler" /\ workers'[w].pc = "idle" /\ faults' = faults)
          => /\ db_signals'[workers[w].signal.id].status = "failed"
             /\ db_signals'[workers[w].signal.id].error_message = workers[w].exc]_vars

\* C16: without infrastructure fault and with workers that keep running,
\* every Order committed by process_signal_task eventually has the stored
\* status closed, whichever of the commit and the start of the lifecycle
\* task enqueued for the order comes first.
C16_CommittedOrderCloses ==
    \A pk \in 1..MaxSignals :
        (\E o \in db_orders : o.id = pk)
        ~> (\E o \in db_orders : o.id = pk /\ o.status = "closed")

\* C17: a committed Order keeps its action, instrument, entry_price,
\* stop_loss, take_profit, order_id, user and signal link in every later
\* state: the transitions of the lifecycle task change its status only.
C17_OnlyStatusChanges ==
    [][\A o \in db_orders : \A n \in db_orders' :
          o.id = n.id => [n EXCEPT !.status = o.status] = o]_vars

\* C17 witness: both transitions of an order are committed.
C17_Witness ==
    \E o \in db_orders :
        /\ o.status = "closed"
        /\ {h.status : h \in HistoryOf(o.id)} = {"pending", "executed", "closed"}

\* the lifecycle execution is at one of its sleeps (line 26 or line 49)
InTimedWait(w) ==
    /\ workers[w].pc = "L_update"
    /\ workers[w].msg.task = "simulate_order_lifecycle"

\* a lifecycle execution that found its order is running on the worker
RunsLifecycle(w) ==
    /\ workers[w].pc \in {"L_update", "L_broadcast", "L_commit"}
    /\ workers[w].msg.task = "simulate_order_lifecycle"

NextChannels ==
    \/ \E a \in Accounts : \E text \in Messages : ReceiveSignal(a, text, MaxSignals)
    \/ \E c \in Connections : Connect(c)
    \/ \E c \in Connections : Disconnect(c)
    \/ SoloTaskNext

SpecChannels == Init /\ [][NextChannels]_vars

\* C19: the signal_invalid channel is scoped by broker account: every
\* signal.invalid event a connection was sent is for a signal of the account
\* the connection's client belongs to, so what a client of account B
\* receives does not depend on the signals of account A.
C19_InvalidScopedByAccount ==
    \A c \in Connections : \A e \in consumers[c].received : e.account_id = c

\* ------------------------------------------------------------------------
\* The parser over a corpus of texts
\* ------------------------------------------------------------------------

\* the tokens after SL and TP: two decimals, the words float() accepts as
\* numbers, and a word it refuses
NumberTokens ==
    {<<"1",".","0","8","5","0">>, <<"1",".","0","8","9","0">>, <<"n","a","n">>,
     <<"i","n","f">>, <<"a","b","c">>}

\* "<action> EURUSD\nSL <sl>\nTP <tp>"
signal_text(action, sl, tp) ==
    action \o <<" ","E","U","R","U","S","D","\n","S","L"," ">> \o sl
           \o <<"\n","T","P"," ">> \o tp

ParserInputs ==
    {signal_text(a, sl, tp) : a \in {<<"B","U","Y">>, <<"S","E","L","L">>},
                              sl \in NumberTokens, tp \in NumberTokens}

\* the webhook and the task up to the parser's verdict: a rejected text is
\* stored and notified, an accepted one stands before the order creation
NextParser ==
    \/ \E text \in ParserInputs : ReceiveSignal(WebhookAccount, text, MaxSignals)
    \/ \E w \in Workers : \E m \in BagToSet(queue) : StartProcess(w, m)
    \/ \E w \in Workers : ParseSignal(w)
    \/ \E w \in Workers : NotifyInvalid(w)
    \/ \E w \in Workers : Ack(w)
    \/ \E w \in Workers : \E m \in BagToSet(queue) : RunBroadcast(w, m)

SpecParser == Init /\ [][NextParser]_vars

\* Python's a < b on floats: False when either side is nan
FloatLT(a, b) == a.k # "nan" /\ b.k # "nan" /\ FloatCmp(a, b) < 0

\* C20: whenever the parser returns a valid result, for BUY the returned
\* stop-loss is strictly lower than the returned take-profit and for SELL it
\* is strictly higher, for every token the parser accepts as a number.
C20_StopBelowTake ==
    \A w \in Workers :
        workers[w].pc = "P_create"
        => LET d == workers[w].data
           IN  /\ d.action = "BUY" => FloatLT(d.stop_loss, d.take_profit)
               /\ d.action = "SELL" => FloatLT(d.take_profit, d.stop_loss)

\* ------------------------------------------------------------------------
\* The parser as a function of its text
\* ------------------------------------------------------------------------

FirstLines ==
    {<<"B","U","Y"," ","E","U","R","U","S","D">>,
     <<"S","E","L","L"," ","E","U","R","U","S","D"," ","@","1",".","0","8","6","0">>,
     <<"B","U","Y"," ","E","U","R","U","S","D"," ","@","1",".","2",".","3">>,
     <<"b","u","y"," ","E","U","R","U","S","D">>}

\* the lines after the first: none, a note, SL and TP lines present or not,
\* well-formed or not, in both orders
BodyLines ==
    {<<>>,
     <<<<"n","o","t","e">>>>,
     <<<<"T","P"," ","a","b","c">>>>,
     <<<<"S","L"," ","a","b","c">>>>,
     <<<<"T","P"," ","a","b","c">>, <<"S","L"," ","a","b","c">>>>,
     <<<<"S","L"," ","a","b","c">>, <<"T","P"," ","a","b","c">>>>,
     <<<<"T","P"," ","1",".","0","8","9","0">>>>,
     <<<<"S","L"," ","1",".","0","8","5","0">>>>,
     <<<<"S","L"," ","1",".","0","8","5","0">>, <<"T","P"," ","1",".","0","8","9","0">>>>,
     <<<<"S","L"," ","1",".","0","8","9","0">>, <<"T","P"," ","1",".","0","8","5","0">>>>,
     <<<<"S","L"," ","1",".","0","8","5","0">>, <<"T","P"," ","a","b","c">>>>}

\* the text of a first line and the lines after it
RECURSIVE join_lines(_, _)
join_lines(first, body) ==
    IF body = << >> THEN first
    ELSE join_lines(first \o <<"\n">> \o Head(body), Tail(body))

wrap(q, text) == <<q>> \o text \o <<q>>

QuoteChars == {"\"", "'"}

\* texts a client sends quoted: one pair of quotes, and one pair inside
\* another of the other kind
QuotedTexts ==
    LET plain == {join_lines(<<"B","U","Y"," ","E","U","R","U","S","D">>, b) :
                      b \in {<<<<"S","L"," ","1",".","0","8","5","0">>, <<"T","P"," ","1",".","0","8","9","0">>>>,
                             <<<<"n","o","t","e">>>>}}
    IN  {wrap(q, t) : q \in QuoteChars, t \in plain}
        \cup UNION {{wrap(q, wrap(p, t)) : p \in QuoteChars \ {q}, t \in plain} :
                        q \in QuoteChars}

CorpusInputs ==
    {join_lines(f, b) : f \in FirstLines, b \in BodyLines} \cup QuotedTexts

\* the webhook and the task up to the parser's verdict, over the corpus
NextCorpus ==
    \/ \E text \in CorpusInputs : ReceiveSignal(WebhookAccount, text, MaxSignals)
    \/ \E w \in Workers : \E m \in BagToSet(queue) : StartProcess(w, m)
    \/ \E w \in Workers : ParseSignal(w)
    \/ \E w \in Workers : NotifyInvalid(w)
    \/ \E w \in Workers : Ack(w)
    \/ \E w \in Workers : \E m \in BagToSet(queue) : RunBroadcast(w, m)

SpecCorpus == Init /\ [][NextCorpus]_vars
\* the lines the parser examines
parsed_lines(text) == split_lines(strip_quotes(strip_quotes(text, "\""), "'"))

is_sl_line(line) == startswith(upper(line), <<"S","L">>)

is_tp_line(line) == ~is_sl_line(line) /\ startswith(upper(line), <<"T","P">>)

malformed_line(line) ==
    (is_sl_line(line) \/ is_tp_line(line)) /\ ~second_token_float(line).ok

\* the value of the last line of the kind among lines[2..]
last_value(lines, kind(_)) ==
    LET last == CHOOSE i \in 2..Len(lines) :
                    kind(lines[i]) /\ \A j \in (i + 1)..Len(lines) : ~kind(lines[j])
    IN  second_token_float(lines[last]).val

\* the reason of the first failing step, in the order of the steps: empty
\* text, fewer than two lines, first line, the first malformed SL or TP line
\* in line order, SL never found, TP never found, stop-loss against
\* take-profit; None when no step fails
first_failing_step(text) ==
    LET lines == parsed_lines(text)
        bad   == {i \in 2..Len(lines) : malformed_line(lines[i])}
        first == CHOOSE i \in bad : \A j \in bad : i <= j
        act   == match_first_line(lines[1]).action
    IN  IF text = << >> THEN Str("Empty message")
        ELSE IF Len(lines) < 2 THEN Str("Incomplete signal data")
        ELSE IF ~match_first_line(lines[1]).ok THEN Str("Invalid first line format")
        ELSE IF bad # {}
        THEN IF is_sl_line(lines[first]) THEN Str("Invalid SL format")
             ELSE Str("Invalid TP format")
        ELSE IF \A i \in 2..Len(lines) : ~is_sl_line(lines[i]) THEN Str("SL missing")
        ELSE IF \A i \in 2..Len(lines) : ~is_tp_line(lines[i]) THEN Str("TP missing")
        ELSE IF act = "BUY"
                /\ ~FloatLT(last_value(lines, is_sl_line), last_value(lines, is_tp_line))
        THEN Str("For BUY, SL must be lower than TP")
        ELSE IF act = "SELL"
                /\ ~FloatLT(last_value(lines, is_tp_line), last_value(lines, is_sl_line))
        THEN Str("For SELL, SL must be higher than TP")
        ELSE None

\* signals whose text the parser rejected, with the stored reason
Rejected == {sid \in DOMAIN db_signals :
                db_signals[sid].status = "failed" /\ db_signals[sid].error_message # None}

\* C22: the reason stored for a rejected text is that of the first failing
\* step in the order empty text, incomplete data, first line, first malformed
\* SL or TP line, missing SL, missing TP, stop-loss against take-profit.
C22_FirstFailingStep ==
    \A sid \in Rejected :
        db_signals[sid].error_message = first_failing_step(db_signals[sid].raw_message)

\* the text inside one pair of the quote q, as message[1:-1].strip() leaves it
inside_quotes(text, q) == strip(Slice(text, 2, Len(text) - 1))

is_wrapped(text, q) == startswith(text, <<q>>) /\ endswith(text, <<q>>)

\* a text in one pair of quotes whose content is in a pair of the other kind
nested_quotes(text) ==
    \E q \in QuoteChars : \E p \in QuoteChars \ {q} :
        is_wrapped(text, q) /\ is_wrapped(inside_quotes(text, q), p)

\* executions that hold the parser's verdict
HoldsVerdict(w) == workers[w].pc \in {"P_create", "P_notify"}

\* C23: of a text in one pair of quotes whose content is in a pair of the
\* other kind, the parser removes the outer pair only: the inner quotes stay
\* in the text that is split into lines, so a text of two or more lines is
\* rejected for its first line, which begins with the inner quote, and a
\* shorter one as incomplete.
C23_OneQuoteLayer ==
    \A w \in Workers :
        HoldsVerdict(w) /\ nested_quotes(workers[w].signal.raw_message)
        => /\ workers[w].pc = "P_notify"
           /\ LET text  == workers[w].signal.raw_message
                  outer == CHOOSE q \in QuoteChars : is_wrapped(text, q)
              IN  workers[w].signal.error_message =
                      IF Len(split_lines(inside_quotes(text, outer))) < 2
                      THEN Str("Incomplete signal data")
                      ELSE Str("Invalid first line format")

\* ------------------------------------------------------------------------
\* The parser's results
\* ------------------------------------------------------------------------

\* the reasons the parser's contract lists
RejectionReasons ==
    {Str("Empty message"), Str("Incomplete signal data"),
     Str("Invalid first line format"), Str("Invalid SL format"),
     Str("Invalid TP format"), Str("SL missing"), Str("TP missing"),
     Str("For BUY, SL must be lower than TP"),
     Str("For SELL, SL must be higher than TP")}

is_number(v) == v.k \in {"num", "nan", "inf"}

\* C29: every call of the parser returns: the result is a parsed signal with
\* action, instrument and a price that is a number or null, or it is one of
\* the listed rejection reasons; a text whose first line matches the pattern
\* is never rejected for its price.
C29_ParsedOrListedReason ==
    \A w \in Workers :
        HoldsVerdict(w)
        => IF workers[w].pc = "P_create"
           THEN LET d == workers[w].data
                IN  /\ d.action \in {"BUY", "SELL"}
                    /\ d.instrument # << >>
                    /\ d.price = None \/ is_number(d.price)
           ELSE workers[w].signal.error_message \in RejectionReasons

\* ------------------------------------------------------------------------
\* The broadcaster tasks
\* ------------------------------------------------------------------------

BroadcastTasks == {"broadcast_order_event", "notify_signal_invalid"}

InCreation(w) == workers[w].pc = "P_blocked" \/ HoldsInsert(w)

\* C25: two Order creations that run at the same time in separate
\* transactions never hold the same order_id, and no creation fails on the
\* unique constraint.
C25_ConcurrentIdsDiffer ==
    /\ \A w, v \in Workers :
           (w # v /\ InCreation(w) /\ InCreation(v))
           => workers[w].order.order_id # workers[v].order.order_id
    /\ \A w \in Workers : workers[w].exc # IntegrityError

\* ------------------------------------------------------------------------
\* Events of the lifecycle
\* ------------------------------------------------------------------------

\* committed transitions of an order to a status: each commits its history row
CommittedTransitions(o, status) ==
    Cardinality({h \in HistoryOf(o.id) : h.status = status})

\* C26: whenever no lifecycle transaction of an order is open between its
\* broadcast and its commit, the order.executed and order.closed events
\* handed to the queue for the order are as many as its committed
\* transitions to that status.
C26_EventPerCommittedTransition ==
    \A o \in db_orders :
        (\A w \in Workers : ~(workers[w].pc = "L_commit" /\ workers[w].order.id = o.id))
        => \A status \in {"executed", "closed"} :
               BroadcastCalls(event_type(status), o.order_id)
                   = CommittedTransitions(o, status)

\* ------------------------------------------------------------------------
\* From the webhook to the task
\* ------------------------------------------------------------------------

\* delay calls of process_signal_task for a signal
ProcessCalls(sid) ==
    CountCalls({e \in BagToSet(enqueued) :
                   e.task = "process_signal_task" /\ e.arg.signal_id = sid}, enqueued)

\* messages of process_signal_task for a signal, queued or in execution
ProcessInFlight(sid) ==
    {m \in InFlight : m.task = "process_signal_task" /\ m.arg.signal_id = sid}

\* C27: every stored RawSignal has exactly one process_signal_task enqueued
\* for it, and a signal does not stay pending forever: a signal leaves
\* pending only in an execution of its task, so as long as it is pending a
\* message of its task is queued or in execution.
C27_PendingSignalHasTask ==
    \A sid \in DOMAIN db_signals :
        /\ ProcessCalls(sid) = 1
        /\ db_signals[sid].status = "pending" => ProcessInFlight(sid) # {}

\* ------------------------------------------------------------------------
\* Lifecycle tasks of an order
\* ------------------------------------------------------------------------

\* C28: over all executions of process_signal_task, first runs, retries after
\* a rolled-back order transaction and runs of redelivered messages, every
\* committed Order has exactly one simulate_order_lifecycle enqueued for it.
C28_OneLifecyclePerOrder ==
    \A o \in db_orders : LifecycleCalls(o.id) = 1

\* C28 witness: the first order transaction was rolled back after it had
\* enqueued its lifecycle task, and the order of a later execution is
\* committed with its own.
C28_Witness ==
    \E o \in db_orders :
        /\ o.id = 2
        /\ LifecycleCalls(1) = 1
        /\ LifecycleCalls(2) = 1
        /\ LiveOrdersByPk(1) = {}

\* ------------------------------------------------------------------------
\* Order identifiers of one date, created one after another
\* ------------------------------------------------------------------------

\* signals of one behaviour, the stored one included
MaxSignalsIds == 4

\* the counter of the latest order of the date when the behaviour starts
StartCounters == {counter_modulus - 2, counter_modulus - 1}

\* the latest order of the date, created from a signal with the text
\* MsgBuyPrice and closed; the generator reads the row with the highest
\* order_id only, the rows below it are left out
stored_order(counter) ==
    [id          |-> 1,
     order_id    |-> counter,
     signal      |-> 1,
     user        |-> account_user(WebhookAccount),
     action      |-> "BUY",
     instrument  |-> <<"E","U","R","U","S","D">>,
     entry_price |-> Num(10860, decimal_places),
     stop_loss   |-> Num(10850, decimal_places),
     take_profit |-> Num(10890, decimal_places),
     status      |-> "closed"]

\* the event of a status of the stored order
stored_event(o, status) ==
    [type |-> event_type(status), order_id |-> o.order_id, instrument |-> o.instrument,
     entry_price |-> o.entry_price, status |-> status]

\* the state after the signal of the latest order has been processed and its
\* lifecycle has ended
InitIds ==
    \E counter \in StartCounters :
        LET o      == stored_order(counter)
            events == {stored_event(o, s) : s \in {"pending", "executed", "closed"}}
        IN  /\ db_signals = <<[status |-> "success", error_message |-> None,
                               raw_message |-> MsgBuyPrice, account |-> WebhookAccount,
                               user |-> account_user(WebhookAccount)]>>
            /\ db_orders = {o}
            /\ db_history = {[id |-> 1, order |-> 1, status |-> "pending"],
                             [id |-> 2, order |-> 1, status |-> "executed"],
                             [id |-> 3, order |-> 1, status |-> "closed"]}
            /\ next_pk = [signal |-> 2, order |-> 2, history |-> 4]
            /\ queue = EmptyBag
            /\ workers = [w \in Workers |-> Idle]
            /\ sent = {[group |-> group_name("broadcast_order_event"), data |-> e] :
                          e \in events}
            /\ enqueued = SetToBag({[task |-> "process_signal_task",
                                     arg |-> [signal_id |-> 1]],
                                    [task |-> "simulate_order_lifecycle",
                                     arg |-> [order_pk |-> 1]]}
                                   \cup {[task |-> "broadcast_order_event", arg |-> e] :
                                            e \in events})
            /\ db_up = TRUE
            /\ channel_up = TRUE
            /\ faults = 0
            /\ consumers = [c \in Connections |-> [connected |-> FALSE, received |-> {}]]

\* no task is queued or in execution
Quiescent == queue = EmptyBag /\ \A w \in Workers : workers[w].pc = "idle"

\* signals with a price arrive one after another, each when the work for
\* the one before has ended
NextIds ==
    \/ Quiescent /\ ReceiveSignal(WebhookAccount, MsgBuyPrice, MaxSignalsIds)
    \/ \E w \in Workers : \E m \in BagToSet(queue) : StartProcess(w, m)
    \/ \E w \in Workers : ParseSignal(w)
    \/ \E w \in Workers : CreateOrder(w)
    \/ \E w \in Workers : BroadcastPending(w)
    \/ \E w \in Workers : EnqueueLifecycle(w)
    \/ \E w \in Workers : CommitOrder(w)
    \/ \E w \in Workers : MarkSuccess(w)
    \/ \E w \in Workers : HandleException(w)
    \/ \E w \in Workers : Ack(w)
    \/ \E w \in Workers : \E m \in BagToSet(queue) : StartLifecycle(w, m)
    \/ \E w \in Workers : UpdateStatus(w)
    \/ \E w \in Workers : BroadcastStatus(w)
    \/ \E w \in Workers : CommitStatus(w)
    \/ \E w \in Workers : \E m \in BagToSet(queue) : RunBroadcast(w, m)

SpecIds == InitIds /\ [][NextIds]_vars

StoredIds == {o.order_id : o \in db_orders}

\* C30: for orders created one after another on one date, the identifier
\* generate_custom_id returns is the identifier of no stored order, and no
\* creation fails validation on order_id.
C30_SequentialIdsDiffer ==
    \A w \in Workers :
        /\ workers[w].pc = "P_create"
           => generate_custom_id(db_orders \ LockedOrders(w)) \notin StoredIds
        /\ workers[w].exc # ValidationError({"order_id"})

====
